---- MODULE Spec2Model ----
(***************************************************************************)
(* Model of process_generation (src/app.py), the folder generation engine: *)
(* level validation, per-record resolution of the folder parts, directory  *)
(* creation and the per-file copy loop with its failure accounting.        *)
(*                                                                         *)
(* A Python str is a sequence of one-character strings.  The CJK           *)
(* characters of the fallback names are written as the atoms               *)
(*   "wen" U+6587, "jian" U+4EF6, "jia" U+5939  (the prefix of line 179)   *)
(*   "wei" U+672A, "zhi" U+77E5                 (the prefix of line 240)   *)
(* A path below output_dir is the sequence of its segments.                *)
(***************************************************************************)
EXTENDS Integers, Sequences, FiniteSets, TLC

VARIABLES
    selected_files,       \* argument: the source file paths, in order
    name_list,            \* argument: the names (name mode)
    excel_data,           \* argument: the rows (excel mode)
    folder_levels,        \* argument: the configured levels
    data_source,          \* argument: "name", "excel" or anything else
    is_root,              \* environment: the process may overwrite read-only files
    dirs,                 \* file system: directories below output_dir
    files,                \* file system: regular files below output_dir
    result,               \* the result dict of line 144
    valid_levels,         \* local of line 152
    excel_level_indices,  \* local of line 223
    folder_parts,         \* local of lines 168 / 238 (the last record resolved)
    rec_idx,              \* name_idx / row_idx of the record loop (0-based)
    file_idx,             \* position in the loop over selected_files (0-based)
    pc,                   \* position in process_generation
    run,                  \* which call of process_generation this is (1 or 2)
    first,                \* what the first call returned and left on disk
    mk,                   \* history: per record of this call, did makedirs succeed
    tried                 \* history: the files attempted in this call

vars == <<selected_files, name_list, excel_data, folder_levels, data_source,
          is_root, dirs, files, result, valid_levels, excel_level_indices,
          folder_parts, rec_idx, file_idx, pc, run, first, mk, tried>>

inputs == <<selected_files, name_list, excel_data, folder_levels, data_source,
            is_root>>

-----------------------------------------------------------------------------
(* Characters and strings *)

UpperCase == <<"A","B","C","D","E","F","G","H","I","J","K","L","M",
               "N","O","P","Q","R","S","T","U","V","W","X","Y","Z">>

LowerCase == <<"a","b","c","d","e","f","g","h","i","j","k","l","m",
               "n","o","p","q","r","s","t","u","v","w","x","y","z">>

Digits == <<"0","1","2","3","4","5","6","7","8","9">>

CJK == {"wen", "jian", "jia", "wei", "zhi"}

Range(s) == {s[i] : i \in DOMAIN s}

\* str.isalpha() of one character: a Unicode letter.
IsAlphaChar(c) == c \in Range(UpperCase) \cup Range(LowerCase) \cup CJK

\* str.isalpha(): at least one character and every character a letter.
isalpha(s) == Len(s) > 0 /\ \A i \in DOMAIN s : IsAlphaChar(s[i])

\* str.upper() of one character.
upper(c) ==
    IF c \in Range(LowerCase)
    THEN UpperCase[CHOOSE i \in DOMAIN LowerCase : LowerCase[i] = c]
    ELSE c

\* ord() of one character.
ord(c) ==
    IF c \in Range(UpperCase)
    THEN 64 + (CHOOSE i \in DOMAIN UpperCase : UpperCase[i] = c)
    ELSE IF c \in Range(LowerCase)
    THEN 96 + (CHOOSE i \in DOMAIN LowerCase : LowerCase[i] = c)
    ELSE IF c \in Range(Digits)
    THEN 47 + (CHOOSE i \in DOMAIN Digits : Digits[i] = c)
    ELSE CASE c = "\"" -> 34  [] c = "*" -> 42  [] c = "." -> 46
           [] c = "/"  -> 47  [] c = ":" -> 58  [] c = "<" -> 60
           [] c = ">"  -> 62  [] c = "?" -> 63  [] c = "\\" -> 92
           [] c = "_"  -> 95  [] c = "|" -> 124
           [] c = "wen" -> 25991 [] c = "jian" -> 20214 [] c = "jia" -> 22841
           [] c = "wei" -> 26410 [] c = "zhi" -> 30693

\* str(n) of a natural number, as in the f-strings.
RECURSIVE DecStr(_)
DecStr(n) == IF n < 10 THEN <<Digits[n + 1]>>
             ELSE DecStr(n \div 10) \o <<Digits[(n % 10) + 1]>>

\* invalid_chars of lines 176 and 241.
invalid_chars == {"/", "\\", ":", "*", "?", "\"", "<", ">", "|"}

\* A cleaning that forgets one of the characters.
SanitizeKeepsColon(folder_name) ==
    SelectSeq(folder_name, LAMBDA c : c \notin (invalid_chars \ {":"}))

\* ''.join([c for c in folder_name if c not in invalid_chars]), lines 177, 242.
Sanitize(folder_name) == SelectSeq(folder_name, LAMBDA c : c \notin invalid_chars)

\* f"<wen jian jia>_{name_idx}_{level_idx}", lines 179 and 244.
Fallback(record_idx, level_idx) ==
    <<"wen", "jian", "jia", "_">> \o DecStr(record_idx) \o <<"_">> \o DecStr(level_idx)

\* f"<wei zhi>_{level_idx}", line 240.
Unknown(level_idx) == <<"wei", "zhi", "_">> \o DecStr(level_idx)

\* A cleaning without the fallback of lines 178-179.
CleanNameNoFallback(folder_name, record_idx, level_idx) == Sanitize(folder_name)

\* Lines 177-179 and 242-244: sanitize, then substitute the fallback if empty.
CleanName(folder_name, record_idx, level_idx) ==
    IF Sanitize(folder_name) = <<>>
    THEN Fallback(record_idx, level_idx)
    ELSE Sanitize(folder_name)

\* column_to_index: ord() raises on a string that is not one character after
\* upper(), and the bare except returns -1.
column_to_index(column) ==
    IF Len(column) = 1 THEN ord(upper(column[1])) - ord("A") ELSE -1

-----------------------------------------------------------------------------
(* The resolver: lines 151-180 (name mode) and 222-245 (excel mode) *)

\* Lines 152-154: every configured level is appended to valid_levels.
ValidLevels(levels) == SelectSeq(levels, LAMBDA level : TRUE)

\* A resolver that takes every later level literally.
NameLevelSourceLiteral(level_idx, level, name) ==
    IF level_idx = 0 THEN name ELSE level

\* Lines 170-173: which string a level of a name record is taken from.
NameLevelSource(level_idx, level, name) ==
    IF level_idx = 0 THEN name
    ELSE IF ~isalpha(level) THEN level ELSE name

\* Lines 168-180: folder_parts of one name record.
NameFolderParts(name, name_idx, levels) ==
    [k \in 1..Len(levels) |->
        CleanName(NameLevelSource(k - 1, levels[k], name), name_idx, k - 1)]

\* A bounds check that is off by one at the upper end.
ColumnValidOffByOne(idx, data) == idx >= 0 /\ (Len(data) > 0 /\ idx <= Len(data[1]))

\* Line 226: idx >= 0 and (len(excel_data) > 0 and idx < len(excel_data[0])).
ColumnValid(idx, data) == idx >= 0 /\ (Len(data) > 0 /\ idx < Len(data[1]))

\* Lines 223-227: the indices of the configured columns that are kept.
ExcelLevelIndices(levels, data) ==
    SelectSeq([k \in 1..Len(levels) |-> column_to_index(levels[k])],
              LAMBDA idx : ColumnValid(idx, data))

\* The dropped columns reported once per row instead of once per call.
InvalidColumnsPerRow(levels, data) ==
    LET d == SelectSeq(levels, LAMBDA level : ~ColumnValid(column_to_index(level), data))
    IN  [k \in 1..(Len(d) * Len(data)) |-> d[((k - 1) % Len(d)) + 1]]

\* Lines 228-229: the configured columns that are dropped, in order.
InvalidColumns(levels, data) ==
    SelectSeq(levels, LAMBDA level : ~ColumnValid(column_to_index(level), data))

\* Line 240: the cell, or the "unknown" name when the row is too short.
CellSource(row_data, level_idx) ==
    IF level_idx < Len(row_data) THEN row_data[level_idx + 1] ELSE Unknown(level_idx)

\* Lines 238-245: folder_parts of one row.
ExcelFolderParts(row_data, row_idx, indices) ==
    [p \in 1..Len(indices) |->
        CleanName(CellSource(row_data, indices[p]), row_idx, indices[p])]

-----------------------------------------------------------------------------
(* The file system *)

\* The source files a caller may select: os.path.exists, os.path.getsize,
\* os.path.basename and the permission bits of each.
SizeCapMB == 10
MiB == 1024 * 1024

SourcePaths == {"doc", "cap", "big", "gone", "ro", "sub"}

Basename(f) ==
    CASE f = "doc"  -> <<"d", ".", "t", "x", "t">>
      [] f = "cap"  -> <<"c", ".", "p", "d", "f">>
      [] f = "big"  -> <<"b", ".", "p", "d", "f">>
      [] f = "gone" -> <<"g", ".", "d", "o", "c">>
      [] f = "ro"   -> <<"r", ".", "d", "o", "c">>
      [] f = "sub"  -> <<"s", "u", "b">>

\* os.path.exists(file_path), lines 189 and 254.
SourceExists(f) == f # "gone"

\* os.path.getsize(file_path) in bytes, lines 195 and 260.
SourceSize(f) ==
    CASE f = "cap" -> SizeCapMB * MiB
      [] f = "big" -> SizeCapMB * MiB + 1
      [] f = "sub" -> 4096
      [] OTHER     -> 1234

\* The source is read-only: copy2 carries the mode over to the copy.
SourceReadOnly(f) == f = "ro"

\* The source is a directory: it exists and has a size, and copy2 raises.
SourceIsDir(f) == f = "sub"

\* A size check that also rejects a file of exactly the cap.
TooLargeAtCap(size) == size >= SizeCapMB * MiB

\* Lines 195-196 and 260-261: file_size_mb = size / (1024 * 1024) > 10.  The
\* division by 2^20 is exact in binary floating point.
TooLarge(size) == size > SizeCapMB * MiB

Prefixes(path) == {SubSeq(path, 1, k) : k \in 1..Len(path)}

IsFile(fs_files, path) == \E g \in fs_files : g.path = path

\* os.makedirs(full_folder_path, exist_ok=True), lines 183 and 248: raises
\* (FileExistsError / NotADirectoryError) when a component of the path is a
\* regular file; directories that exist are accepted.
MakedirsRaises(fs_files, path) == \E p \in Prefixes(path) : IsFile(fs_files, p)

\* shutil.copy2(file_path, dest_path), lines 203 and 268: raises when the
\* source is a directory, and when the destination exists read-only and the
\* process is not privileged (copyfile opens the destination for writing).
Copy2Raises(fs_files, f, dest, root) ==
    \/ SourceIsDir(f)
    \/ \E g \in fs_files : g.path = dest /\ g.ro /\ ~root

\* The file system after a successful copy2: the destination holds the
\* source's content and mode (copystat), replacing what was there.
Copy2(fs_files, f, dest) ==
    {g \in fs_files : g.path # dest}
        \cup {[path |-> dest, src |-> f, ro |-> SourceReadOnly(f)]}

-----------------------------------------------------------------------------
(* Messages of fail_details: the kind of the message and its parameter *)

Msg(kind, arg) == [kind |-> kind, arg |-> arg]

EmptyResult ==
    [success_count |-> 0, fail_count |-> 0, folder_count |-> 0,
     fail_details |-> <<>>]

\* A failed record charged as one failure.
RecordChargeOne(sel) == 1

\* Lines 214 and 279: what a failed record is charged.
RecordCharge(sel) == Len(sel)

\* A count of the directories that did not exist yet.
CountFolderIfNew(res, fs_dirs, path) ==
    IF path \in fs_dirs THEN res ELSE [res EXCEPT !.folder_count = @ + 1]

\* Lines 184 and 249: result["folder_count"] += 1 after makedirs returned.
CountFolder(res, fs_dirs, path) == [res EXCEPT !.folder_count = @ + 1]

NumRecords == IF data_source = "name" THEN Len(name_list) ELSE Len(excel_data)

-----------------------------------------------------------------------------
(* The inputs the model draws from *)

MaxRecords == 2

Seqs(S, n) == UNION {[1..k -> S] : k \in 0..n}

Alice == <<"A", "l", "i", "c", "e">>
Bob == <<"B", "o", "b">>
Slashed == <<"a", "/", "b">>
Question == <<"?">>
Blank == <<>>
LName == <<"n", "a", "m", "e">>
LDept == <<"D", "e", "p", "t">>
LLiteral == <<"v", ":", "1">>

Names == {Alice, Bob, Slashed, Question}

NameLevelLists ==
    { <<>>, <<LName>>, <<LName, LDept>>, <<LName, LLiteral>>, <<Blank>>,
      <<LName, Blank>>, <<LName, LLiteral, LDept>> }

ExcelLevelLists ==
    { <<>>, << <<"A">> >>, << <<"A">>, <<"B">> >>, << <<"b">>, <<"A">> >>,
      << <<"A">>, <<"C">> >>, << <<"C">>, <<"C">> >>, << Blank, <<"B">> >>,
      << <<"1">>, <<"A", "B">> >> }

Rows ==
    { << <<"X">>, <<"Y">> >>, << Blank, <<"Z">> >>, << <<"X">> >>,
      << Slashed, Question, <<"Y">> >>, <<>> }

\* A table with two rows shorter than its first row.
ShortRowTables ==
    { << << <<"X">>, <<"Y">> >>, << <<"X">> >>, << Blank >> >> }

FileLists ==
    { <<>>, <<"doc">>, <<"doc", "cap">>, <<"big", "doc">>, <<"gone", "doc">>,
      <<"sub", "doc">>, <<"ro", "doc">>, <<"big", "cap">> }

\* A regular file named "ab" that may lie in output_dir before the call.
Blocker == [path |-> << <<"a", "b">> >>, src |-> "pre", ro |-> FALSE]

Init ==
    /\ data_source \in {"name", "excel", "other"}
    /\ selected_files \in FileLists
    /\ \/ /\ data_source = "name"
          /\ name_list \in Seqs(Names, MaxRecords)
          /\ excel_data = <<>>
          /\ folder_levels \in NameLevelLists
       \/ /\ data_source = "excel"
          /\ name_list = <<>>
          /\ excel_data \in Seqs(Rows, MaxRecords) \cup ShortRowTables
          /\ folder_levels \in ExcelLevelLists
       \/ /\ data_source = "other"
          /\ name_list = <<Alice>>
          /\ excel_data = << << <<"X">>, <<"Y">> >> >>
          /\ folder_levels \in {<<>>, <<LName>>}
    /\ is_root \in (IF \E i \in DOMAIN selected_files : SourceReadOnly(selected_files[i])
                    THEN BOOLEAN ELSE {FALSE})
    /\ dirs = {}
    /\ files \in {{}, {Blocker}}
    /\ result = EmptyResult
    /\ valid_levels = <<>>
    /\ excel_level_indices = <<>>
    /\ folder_parts = <<>>
    /\ rec_idx = 0
    /\ file_idx = 0
    /\ pc = "validate"
    /\ run = 1
    /\ first = [result |-> EmptyResult, dirs |-> {}, files |-> {}]
    /\ mk = <<>>
    /\ tried = <<>>

-----------------------------------------------------------------------------
(* process_generation, step by step *)

Fail(res, msg, n) ==
    [res EXCEPT !.fail_details = Append(@, msg), !.fail_count = @ + n]

\* Lines 151-158: the level check.
ValidateLevels ==
    /\ pc = "validate"
    /\ valid_levels' = ValidLevels(folder_levels)
    /\ IF valid_levels' = <<>>
       THEN /\ result' = Fail(result, Msg("NoValidLevels", <<>>), 0)
            /\ pc' = "done"
       ELSE /\ result' = result
            /\ pc' = "dispatch"
    /\ UNCHANGED <<inputs, dirs, files, excel_level_indices, folder_parts,
                   rec_idx, file_idx, run, first, mk, tried>>

\* Lines 161-164: name mode, the name list check.
CheckNameList ==
    /\ pc = "dispatch"
    /\ data_source = "name"
    /\ IF name_list = <<>>
       THEN /\ result' = Fail(result, Msg("EmptyNameList", <<>>), 0)
            /\ pc' = "done"
       ELSE /\ result' = result
            /\ pc' = "record"
    /\ rec_idx' = 0
    /\ UNCHANGED <<inputs, dirs, files, valid_levels, excel_level_indices,
                   folder_parts, file_idx, run, first, mk, tried>>

\* Lines 217-233: excel mode, the table check and the column resolution.
ResolveColumns ==
    /\ pc = "dispatch"
    /\ data_source = "excel"
    /\ rec_idx' = 0
    /\ IF excel_data = <<>>
       THEN /\ result' = Fail(result, Msg("EmptyTable", <<>>), 0)
            /\ excel_level_indices' = excel_level_indices
            /\ pc' = "done"
       ELSE LET dropped == InvalidColumns(valid_levels, excel_data)
                noted == [result EXCEPT !.fail_details =
                            @ \o [k \in 1..Len(dropped) |->
                                    Msg("InvalidColumn", dropped[k])]]
            IN  /\ excel_level_indices' = ExcelLevelIndices(valid_levels, excel_data)
                /\ IF excel_level_indices' = <<>>
                   THEN /\ result' = Fail(noted, Msg("NoValidColumns", <<>>), 0)
                        /\ pc' = "done"
                   ELSE /\ result' = noted
                        /\ pc' = "record"
    /\ UNCHANGED <<inputs, dirs, files, valid_levels, folder_parts, file_idx,
                   run, first, mk, tried>>

\* Lines 161, 217, 281: any other data source falls through to the return.
OtherSource ==
    /\ pc = "dispatch"
    /\ data_source \notin {"name", "excel"}
    /\ pc' = "done"
    /\ UNCHANGED <<inputs, dirs, files, result, valid_levels, excel_level_indices,
                   folder_parts, rec_idx, file_idx, run, first, mk, tried>>

\* The folder parts of record rec (0-based): lines 168-180 or 238-245.
PartsOf(rec) ==
    IF data_source = "name"
    THEN NameFolderParts(name_list[rec + 1], rec, valid_levels)
    ELSE ExcelFolderParts(excel_data[rec + 1], rec, excel_level_indices)

\* A record loop that gives up the call when a directory could not be made.
NextRecordStopsAfterFailure ==
    /\ rec_idx' = rec_idx + 1
    /\ file_idx' = 0
    /\ pc' = IF rec_idx + 1 < NumRecords
                /\ ~(pc = "record" /\ Len(result'.fail_details) > Len(result.fail_details))
             THEN "record" ELSE "done"

\* The record loops of lines 166 and 236 move on to the next record, or the
\* function returns (line 281).
NextRecord ==
    /\ rec_idx' = rec_idx + 1
    /\ file_idx' = 0
    /\ pc' = IF rec_idx + 1 < NumRecords THEN "record" ELSE "done"

\* Lines 167-184 and 211-214 (237-249 and 276-279): resolve the record's
\* folder parts and create its directory.
MakeDirectory ==
    /\ pc = "record"
    /\ folder_parts' = PartsOf(rec_idx)
    /\ IF MakedirsRaises(files, folder_parts')
       THEN /\ result' = Fail(result,
                              Msg(IF data_source = "name" THEN "NameFailed"
                                  ELSE "RowFailed", DecStr(rec_idx + 1)),
                              RecordCharge(selected_files))
            /\ dirs' = dirs
            /\ mk' = Append(mk, FALSE)
            /\ NextRecord
       ELSE /\ dirs' = dirs \cup Prefixes(folder_parts')
            /\ result' = CountFolder(result, dirs, folder_parts')
            /\ mk' = Append(mk, TRUE)
            /\ IF selected_files = <<>>
               THEN NextRecord
               ELSE /\ pc' = "copy"
                    /\ file_idx' = 0
                    /\ rec_idx' = rec_idx
    /\ UNCHANGED <<inputs, files, valid_levels, excel_level_indices, run, first,
                   tried>>

\* A file loop that leaves the record at the first failure (break for continue).
NextFileStopsAtFailure ==
    IF result'.fail_count = result.fail_count /\ file_idx + 1 < Len(selected_files)
    THEN /\ file_idx' = file_idx + 1
         /\ rec_idx' = rec_idx
         /\ pc' = "copy"
    ELSE NextRecord

\* The file loops of lines 187 and 252 move on to the next file, or the
\* record is finished.
NextFile ==
    IF file_idx + 1 < Len(selected_files)
    THEN /\ file_idx' = file_idx + 1
         /\ rec_idx' = rec_idx
         /\ pc' = "copy"
    ELSE NextRecord

\* Lines 188-209 and 253-274: one source file of the record.
CopyFile ==
    /\ pc = "copy"
    /\ LET file_path == selected_files[file_idx + 1]
           dest_path == Append(folder_parts, Basename(file_path))
       IN  IF ~SourceExists(file_path)
           THEN /\ result' = Fail(result, Msg("SourceMissing", Basename(file_path)), 1)
                /\ files' = files
                /\ tried' = Append(tried, [rec |-> rec_idx, file |-> file_idx,
                                           outcome |-> "missing"])
           ELSE IF TooLarge(SourceSize(file_path))
           THEN /\ result' = Fail(result, Msg("FileTooLarge", Basename(file_path)), 1)
                /\ files' = files
                /\ tried' = Append(tried, [rec |-> rec_idx, file |-> file_idx,
                                           outcome |-> "too_large"])
           ELSE IF Copy2Raises(files, file_path, dest_path, is_root)
           THEN /\ result' = Fail(result, Msg("CopyFailed", Basename(file_path)), 1)
                /\ files' = files
                /\ tried' = Append(tried, [rec |-> rec_idx, file |-> file_idx,
                                           outcome |-> "copy_error"])
           ELSE /\ result' = [result EXCEPT !.success_count = @ + 1]
                /\ files' = Copy2(files, file_path, dest_path)
                /\ tried' = Append(tried, [rec |-> rec_idx, file |-> file_idx,
                                           outcome |-> "copied"])
    /\ NextFile
    /\ UNCHANGED <<inputs, dirs, valid_levels, excel_level_indices, folder_parts,
                   run, first, mk>>

\* The /process route is requested again with the same globals: a second call
\* of process_generation on the file system the first call left.
Rerun ==
    /\ pc = "done"
    /\ run = 1
    /\ first' = [result |-> result, dirs |-> dirs, files |-> files]
    /\ run' = 2
    /\ result' = EmptyResult
    /\ valid_levels' = <<>>
    /\ excel_level_indices' = <<>>
    /\ folder_parts' = <<>>
    /\ rec_idx' = 0
    /\ file_idx' = 0
    /\ mk' = <<>>
    /\ tried' = <<>>
    /\ pc' = "validate"
    /\ UNCHANGED <<inputs, dirs, files>>

Next ==
    \/ ValidateLevels
    \/ CheckNameList
    \/ ResolveColumns
    \/ OtherSource
    \/ MakeDirectory
    \/ CopyFile
    \/ Rerun

Spec == Init /\ [][Next]_vars

\* One call of process_generation: synchronous, single-threaded code that
\* runs on until it returns.
Call ==
    \/ ValidateLevels
    \/ CheckNameList
    \/ ResolveColumns
    \/ OtherSource
    \/ MakeDirectory
    \/ CopyFile

FairSpec == Spec /\ WF_vars(Call)

-----------------------------------------------------------------------------
(* Vocabulary of the properties *)

\* The record whose folder parts were resolved last (0-based).
LastRecord == Len(mk) - 1

\* The characters a folder segment must not contain.
ForbiddenChars == {"/", "\\", ":", "*", "?", "\"", "<", ">", "|"}

IsBlank(level) == \A i \in DOMAIN level : level[i] = " "

\* The configured column letter lies inside the first row.
InBounds(level) ==
    LET idx == column_to_index(level)
    IN  idx >= 0 /\ idx < Len(excel_data[1])

NoColumnInBounds == \A k \in DOMAIN folder_levels : ~InBounds(folder_levels[k])

ConfigurationError ==
    \/ folder_levels = <<>>
    \/ data_source = "name" /\ name_list = <<>>
    \/ data_source = "excel" /\ (excel_data = <<>> \/ NoColumnInBounds)

Count(seq, Test(_)) == Cardinality({i \in DOMAIN seq : Test(seq[i])})

Done == pc = "done"

-----------------------------------------------------------------------------
(* C1: a configuration error (no level, no name in name mode, no row or no  *)
(* in-bounds column in excel mode) ends the call before the record loop:    *)
(* no directory is created, no file is copied and the three counts are 0.   *)
C1_ConfigErrorNoSideEffects ==
    ConfigurationError =>
        /\ pc \in {"validate", "dispatch", "done"}
        /\ dirs = {}
        /\ \A g \in files : g.src = "pre"
        /\ result.success_count = 0
        /\ result.fail_count = 0
        /\ result.folder_count = 0

C1_Witness ==
    /\ Done
    /\ data_source = "excel"
    /\ excel_data # <<>>
    /\ folder_levels # <<>>
    /\ NoColumnInBounds
    /\ selected_files # <<>>
    /\ result.fail_details # <<>>

(* C2: in name mode the segment at the first position comes from the name, *)
(* at a later position from the level string when that is not purely       *)
(* alphabetic and from the name again when it is; names [Alice, Bob] with  *)
(* levels [name, Dept] and two valid files give Alice/Alice and Bob/Bob,   *)
(* folder_count 2, success_count 4, fail_count 0.                          *)
C2_Derived(s, record_idx, level_idx) ==
    LET kept == SelectSeq(s, LAMBDA c : c \notin ForbiddenChars)
    IN  IF kept # <<>> THEN kept ELSE Fallback(record_idx, level_idx)

C2_NameLevelRule ==
    /\ (data_source = "name" /\ Len(mk) > 0) =>
          LET n == name_list[LastRecord + 1]
          IN  /\ DOMAIN folder_parts = DOMAIN folder_levels
              /\ \A k \in DOMAIN folder_levels :
                    folder_parts[k] =
                        C2_Derived(IF k = 1 THEN n
                                   ELSE IF isalpha(folder_levels[k]) THEN n
                                   ELSE folder_levels[k],
                                   LastRecord, k - 1)
    /\ ( /\ Done /\ run = 1 /\ data_source = "name"
         /\ name_list = <<Alice, Bob>>
         /\ folder_levels = <<LName, LDept>>
         /\ selected_files = <<"doc", "cap">> ) =>
          /\ dirs = {<<Alice>>, <<Alice, Alice>>, <<Bob>>, <<Bob, Bob>>}
          /\ result.folder_count = 2
          /\ result.success_count = 4
          /\ result.fail_count = 0

C2_Witness ==
    /\ Done /\ run = 1 /\ data_source = "name"
    /\ name_list = <<Alice, Bob>>
    /\ folder_levels = <<LName, LDept>>
    /\ selected_files = <<"doc", "cap">>
    /\ result.success_count = 4

(* C3: blank levels are filtered out before resolution: a blank level gives *)
(* no segment to any record, and when every configured level is blank the  *)
(* call fails with the no-valid-levels message and creates no directory.    *)
C3_BlankLevelsFiltered ==
    /\ Len(mk) > 0 =>
          Len(folder_parts) <= Count(folder_levels, LAMBDA level : ~IsBlank(level))
    /\ (\A k \in DOMAIN folder_levels : IsBlank(folder_levels[k])) =>
          /\ dirs = {}
          /\ mk = <<>>
          /\ (Done /\ NumRecords > 0) =>
                result.fail_details = <<Msg("NoValidLevels", <<>>)>>

(* C4: in excel mode a configured level outside the first row's bounds is  *)
(* dropped: it gives no segment to any row, its invalid-column message is  *)
(* in fail_details exactly once whatever the number of rows, every row is  *)
(* still processed with the remaining columns, and the call fails as a     *)
(* whole only when no column remains.                                      *)
C4_KeptLevels == SelectSeq(folder_levels, InBounds)

C4_InvalidColumnOnce ==
    (data_source = "excel" /\ excel_data # <<>> /\ folder_levels # <<>>
        /\ pc \in {"record", "copy", "done"}) =>
        /\ \A j \in DOMAIN folder_levels :
              LET level == folder_levels[j]
              IN  Count(result.fail_details,
                        LAMBDA m : m.kind = "InvalidColumn" /\ m.arg = level)
                  = Count(folder_levels,
                          LAMBDA other : other = level /\ ~InBounds(level))
        /\ Len(mk) > 0 =>
              /\ Len(folder_parts) = Len(C4_KeptLevels)
              /\ \A p \in DOMAIN folder_parts :
                    LET idx == column_to_index(C4_KeptLevels[p])
                    IN  folder_parts[p] =
                            C2_Derived(CellSource(excel_data[LastRecord + 1], idx),
                                       LastRecord, idx)
        /\ Done => /\ mk = <<>> <=> NoColumnInBounds
                   /\ ~NoColumnInBounds => Len(mk) = Len(excel_data)

C4_Witness ==
    /\ Done /\ data_source = "excel"
    /\ folder_levels = << <<"A">>, <<"C">> >>
    /\ Len(excel_data) = 2
    /\ Len(excel_data[1]) = 2
    /\ mk = <<TRUE, TRUE>>
    /\ Count(result.fail_details, LAMBDA m : m.kind = "InvalidColumn") = 1

(* C5: in both modes no segment of a record's folder parts, and so no       *)
(* segment of a directory created, contains one of / \ : * ? " < > | ; the  *)
(* characters are removed one by one, the others kept in place; this holds *)
(* for the segments the fallback substitutes as well.                       *)
C5_SourceOf(p) ==
    IF data_source = "name"
    THEN NameLevelSource(p - 1, valid_levels[p], name_list[LastRecord + 1])
    ELSE CellSource(excel_data[LastRecord + 1], excel_level_indices[p])

C5_Kept(s) == SelectSeq(s, LAMBDA c : c \notin ForbiddenChars)

C5_SegmentsClean ==
    /\ \A p \in DOMAIN folder_parts : \A i \in DOMAIN folder_parts[p] :
          folder_parts[p][i] \notin ForbiddenChars
    /\ \A d \in dirs : \A p \in DOMAIN d : \A i \in DOMAIN d[p] :
          d[p][i] \notin ForbiddenChars
    /\ Len(mk) > 0 =>
          \A p \in DOMAIN folder_parts :
              C5_Kept(C5_SourceOf(p)) # <<>> =>
                  folder_parts[p] = C5_Kept(C5_SourceOf(p))

C5_Witness ==
    /\ data_source = "name"
    /\ Len(mk) = 1
    /\ name_list[1] = Question
    /\ folder_levels = <<LName, LLiteral>>
    /\ folder_parts = <<Fallback(0, 0), <<"v", "1">> >>
    /\ folder_parts \in dirs

C7_FailureStep ==
    (Len(mk') = Len(mk) + 1 /\ ~mk'[Len(mk')]) =>
        /\ Len(result'.fail_details) = Len(result.fail_details) + 1
        /\ SubSeq(result'.fail_details, 1, Len(result.fail_details))
              = result.fail_details
        /\ LET m == result'.fail_details[Len(result'.fail_details)]
           IN  /\ m.kind = IF data_source = "name" THEN "NameFailed" ELSE "RowFailed"
               /\ m.arg = DecStr(rec_idx + 1)
        /\ result'.fail_count = result.fail_count + Len(selected_files)
        /\ result'.folder_count = result.folder_count
        /\ result'.success_count = result.success_count
        /\ files' = files
        /\ tried' = tried
        /\ rec_idx' = rec_idx + 1
        /\ pc' = IF rec_idx + 1 < NumRecords THEN "record" ELSE "done"

C7_DirectoryFailure ==
    /\ [][C7_FailureStep]_vars
    /\ [](Done => /\ mk # <<>> => Len(mk) = NumRecords
                  /\ \A i \in DOMAIN tried : mk[tried[i].rec + 1])

C7_Witness ==
    /\ Done
    /\ mk = <<FALSE, TRUE>>
    /\ Len(selected_files) = 2
    /\ result.fail_count = 2
    /\ result.success_count = 2
    /\ result.folder_count = 1
    /\ Len(result.fail_details) = 1

(* C8: in a record whose directory was created every source file is        *)
(* attempted, in the order of selected_files: a missing source, an         *)
(* oversized source or an error of the copy adds one to fail_count and one *)
(* message, a copy that succeeds adds one to success_count and no message, *)
(* and the later files and records are attempted all the same.             *)
C8_FileStep ==
    Len(tried') = Len(tried) + 1 =>
        LET e == tried'[Len(tried')]
            f == selected_files[e.file + 1]
        IN  /\ e.rec = rec_idx /\ e.file = file_idx
            /\ e.outcome = "missing" <=> ~SourceExists(f)
            /\ e.outcome = "too_large" <=>
                  (SourceExists(f) /\ SourceSize(f) > 10 * 1024 * 1024)
            /\ result'.folder_count = result.folder_count
            /\ IF e.outcome = "copied"
               THEN /\ result'.success_count = result.success_count + 1
                    /\ result'.fail_count = result.fail_count
                    /\ result'.fail_details = result.fail_details
                    /\ \E g \in files' :
                          g.path = Append(folder_parts, Basename(f)) /\ g.src = f
               ELSE /\ result'.success_count = result.success_count
                    /\ result'.fail_count = result.fail_count + 1
                    /\ Len(result'.fail_details) = Len(result.fail_details) + 1
                    /\ SubSeq(result'.fail_details, 1, Len(result.fail_details))
                          = result.fail_details
                    /\ files' = files

C8_AllAttempted ==
    /\ Len(tried) = Count(mk, LAMBDA ok : ok) * Len(selected_files)
    /\ \A i \in DOMAIN tried :
          /\ mk[tried[i].rec + 1]
          /\ tried[i].file \in 0..(Len(selected_files) - 1)
          /\ i < Len(tried) =>
                \/ tried[i].rec < tried[i + 1].rec
                \/ tried[i].rec = tried[i + 1].rec
                      /\ tried[i].file < tried[i + 1].file

C8_FilesIndependent ==
    /\ [][C8_FileStep]_vars
    /\ [](Done => C8_AllAttempted)

C8_Witness ==
    /\ Done
    /\ selected_files = <<"gone", "doc">>
    /\ mk = <<TRUE, TRUE>>
    /\ Len(tried) = 4
    /\ result.fail_count = 2
    /\ result.success_count = 2

(* C9: in name mode with a non-empty name list and at least one level,     *)
(* folder_count is the number of records whose makedirs succeeded, a       *)
(* record counting also when its directory existed already or is the       *)
(* directory of another record, and that number does not depend on the     *)
(* selected files.                                                         *)
C9_Creatable ==
    {i \in DOMAIN name_list :
        ~MakedirsRaises({g \in files : g.src = "pre"},
                        NameFolderParts(name_list[i], i - 1, folder_levels))}

C9_FolderCount ==
    (Done /\ data_source = "name" /\ name_list # <<>> /\ folder_levels # <<>>) =>
        /\ result.folder_count = Count(mk, LAMBDA ok : ok)
        /\ result.folder_count = Cardinality(C9_Creatable)

C9_Witness ==
    /\ Done /\ run = 2 /\ data_source = "name"
    /\ name_list = <<Alice, Alice>>
    /\ selected_files = <<>>
    /\ result.folder_count = 2
    /\ Cardinality({d \in dirs : Len(d) = Len(folder_levels)}) = 1

(* C10: a second call with the same arguments on the same output_dir        *)
(* returns the folder_count and the success_count of the first, and leaves *)
(* the directories and files the first call left.                          *)
C10_Idempotent ==
    (Done /\ run = 2) =>
        /\ result.folder_count = first.result.folder_count
        /\ result.success_count = first.result.success_count
        /\ dirs = first.dirs
        /\ {g.path : g \in files} = {g.path : g \in first.files}

\* Without a read-only source the second call repeats the first exactly.
IdempotentWithoutReadOnly ==
    (Done /\ run = 2 /\ \A i \in DOMAIN selected_files : ~SourceReadOnly(selected_files[i])) =>
        /\ result = first.result
        /\ dirs = first.dirs
        /\ files = first.files

(* C11: a source file of exactly 10 MiB (10 * 1024 * 1024 bytes) is copied   *)
(* and counted in success_count; a source file one byte larger is not      *)
(* copied and is counted once in fail_count with the file-too-large        *)
(* message, and the files after it in the same record are still copied.    *)
C11_Cap == 10 * 1024 * 1024

C11_FileStep ==
    Len(tried') = Len(tried) + 1 =>
        LET e == tried'[Len(tried')]
            f == selected_files[e.file + 1]
        IN  /\ (SourceExists(f) /\ SourceSize(f) = C11_Cap) =>
                  /\ e.outcome = "copied"
                  /\ result'.success_count = result.success_count + 1
                  /\ result'.fail_count = result.fail_count
                  /\ \E g \in files' :
                        g.path = Append(folder_parts, Basename(f)) /\ g.src = f
            /\ (SourceExists(f) /\ SourceSize(f) = C11_Cap + 1) =>
                  /\ e.outcome = "too_large"
                  /\ files' = files
                  /\ result'.success_count = result.success_count
                  /\ result'.fail_count = result.fail_count + 1
                  /\ result'.fail_details =
                        Append(result.fail_details, Msg("FileTooLarge", Basename(f)))

C11_Plain(f) ==
    /\ SourceExists(f) /\ SourceSize(f) <= C11_Cap
    /\ ~SourceIsDir(f) /\ ~SourceReadOnly(f)

C11_RestCopied ==
    \A i \in DOMAIN tried :
        (tried[i].outcome = "too_large" /\ tried[i].file + 1 < Len(selected_files)) =>
            /\ i < Len(tried)
            /\ tried[i + 1].rec = tried[i].rec
            /\ tried[i + 1].file = tried[i].file + 1
            /\ C11_Plain(selected_files[tried[i + 1].file + 1]) =>
                  tried[i + 1].outcome = "copied"

C11_SizeCapBoundary ==
    /\ [][C11_FileStep]_vars
    /\ [](Done => C11_RestCopied)

C11_Witness ==
    /\ Done /\ run = 1
    /\ selected_files = <<"big", "cap">>
    /\ mk = <<TRUE, TRUE>>
    /\ result.success_count = 2
    /\ result.fail_count = 2
    /\ Len(result.fail_details) = 2
    /\ \A i \in DOMAIN result.fail_details : result.fail_details[i].kind = "FileTooLarge"

(* C12: there is no silent failure: every unit of work that is skipped (a    *)
(* dropped level, a record whose directory step failed, a file that was    *)
(* not copied, a call that does nothing) leaves exactly one entry in       *)
(* fail_details; a call that creates no directory and copies no file never *)
(* returns with fail_details empty.                                        *)
C12_DroppedLevels ==
    IF data_source = "excel" /\ excel_data # <<>>
    THEN Count(folder_levels, LAMBDA level : ~InBounds(level))
    ELSE 0

C12_SkippedUnits ==
    C12_DroppedLevels
        + Count(mk, LAMBDA ok : ~ok)
        + Count(tried, LAMBDA e : e.outcome # "copied")
        + (IF mk = <<>> THEN 1 ELSE 0)

C12_NothingDone ==
    /\ \A i \in DOMAIN mk : ~mk[i]
    /\ \A i \in DOMAIN tried : tried[i].outcome # "copied"

C12_NoSilentFailure ==
    Done =>
        /\ Len(result.fail_details) = C12_SkippedUnits
        /\ C12_NothingDone => result.fail_details # <<>>

\* With one of the two data sources the code knows, the entries of
\* fail_details are exactly the skipped units.
LoggedWhenSourceKnown ==
    (Done /\ data_source \in {"name", "excel"}) =>
        /\ Len(result.fail_details) = C12_SkippedUnits
        /\ C12_NothingDone => result.fail_details # <<>>

(* C13: whenever a resolved segment is empty (blank cell, row shorter than   *)
(* the configured column, or every character stripped) the name put in its *)
(* place encodes the record index and the level index, so two such names   *)
(* of one call that come from different (record, level) pairs differ; rows *)
(* [[X, Y], ["", Z]] with levels [A, B] give X/Y and <fallback>_1_0/Z.     *)
C13_Positions ==
    IF data_source = "name" THEN DOMAIN valid_levels ELSE DOMAIN excel_level_indices

C13_LevelIndex(p) ==
    IF data_source = "name" THEN p - 1 ELSE excel_level_indices[p]

C13_RowTooShort(r, p) ==
    data_source = "excel" /\ excel_level_indices[p] >= Len(excel_data[r + 1])

C13_EmptySegment(r, p) ==
    IF data_source = "name"
    THEN C5_Kept(NameLevelSource(p - 1, valid_levels[p], name_list[r + 1])) = <<>>
    ELSE \/ C13_RowTooShort(r, p)
         \/ C5_Kept(excel_data[r + 1][excel_level_indices[p] + 1]) = <<>>

C13_InRecordLoop ==
    /\ data_source \in {"name", "excel"}
    /\ Done
    /\ mk # <<>>

C13_FallbackUnique ==
    /\ C13_InRecordLoop =>
          \A r1, r2 \in 0..(NumRecords - 1) : \A p1, p2 \in C13_Positions :
              ( /\ C13_EmptySegment(r1, p1)
                /\ C13_EmptySegment(r2, p2)
                /\ <<r1, C13_LevelIndex(p1)>> # <<r2, C13_LevelIndex(p2)>> ) =>
                  PartsOf(r1)[p1] # PartsOf(r2)[p2]
    /\ ( /\ Done /\ run = 1 /\ data_source = "excel"
         /\ excel_data = << << <<"X">>, <<"Y">> >>, << Blank, <<"Z">> >> >>
         /\ folder_levels = << <<"A">>, <<"B">> >> ) =>
          dirs = { << <<"X">> >>, << <<"X">>, <<"Y">> >>,
                   << Fallback(1, 0) >>, << Fallback(1, 0), <<"Z">> >> }

\* Apart from rows shorter than the configured column, the names put in
\* place of empty segments are the fallback of the record and level index.
FallbackUniqueWithoutShortRows ==
    C13_InRecordLoop =>
        \A r \in 0..(NumRecords - 1) : \A p \in C13_Positions :
            (C13_EmptySegment(r, p) /\ ~C13_RowTooShort(r, p)) =>
                PartsOf(r)[p] = Fallback(r, C13_LevelIndex(p))

(* C14: once the configuration checks pass the records are processed in    *)
(* input order and each reaches a terminal state exactly once, through     *)
(* directory created, files copied, done, or through directory failed;     *)
(* directory failed is entered only from pending, never after a file of    *)
(* the record was attempted; no failure stops the later records, the call  *)
(* always returns after the last record, and in the result success_count + *)
(* fail_count = (number of records) * (number of source files).            *)
C14_ChecksPass == data_source \in {"name", "excel"} /\ ~ConfigurationError

C14_Step ==
    /\ run' = run =>
          /\ Len(mk') \in {Len(mk), Len(mk) + 1}
          /\ SubSeq(mk', 1, Len(mk)) = mk
          /\ Len(tried') \in {Len(tried), Len(tried) + 1}
          /\ SubSeq(tried', 1, Len(tried)) = tried
    /\ Len(mk') = Len(mk) + 1 =>
          /\ pc = "record"
          /\ rec_idx = Len(mk)
          /\ \A i \in DOMAIN tried : tried[i].rec < rec_idx
          /\ tried' = tried
          /\ IF mk'[Len(mk')] /\ selected_files # <<>>
             THEN pc' = "copy" /\ rec_idx' = rec_idx /\ file_idx' = 0
             ELSE /\ rec_idx' = rec_idx + 1
                  /\ pc' = IF rec_idx + 1 < NumRecords THEN "record" ELSE "done"
    /\ Len(tried') = Len(tried) + 1 =>
          /\ pc = "copy"
          /\ rec_idx = Len(mk) - 1
          /\ mk[rec_idx + 1]
          /\ tried'[Len(tried')].rec = rec_idx
          /\ tried'[Len(tried')].file = file_idx
          /\ mk' = mk

C14_Returned ==
    (Done /\ C14_ChecksPass) =>
        /\ Len(mk) = NumRecords
        /\ result.success_count + result.fail_count
              = NumRecords * Len(selected_files)

C14_Progress ==
    /\ [][C14_Step]_vars
    /\ [](C14_Returned)
    /\ (C14_ChecksPass /\ pc = "validate") ~> (Done /\ Len(mk) = NumRecords)

C14_Witness ==
    /\ Done /\ C14_ChecksPass
    /\ mk = <<FALSE, TRUE>>
    /\ selected_files = <<"gone", "doc">>
    /\ result.fail_count = 3
    /\ result.success_count = 1

====
